---- MODULE Spec2Model ----
(***************************************************************************)
(* SegmentTree<T> of hayas1/coalesced (semigroup/src/segment_tree.rs): an  *)
(* array-backed perfect binary tree over a monoid T, with point update,    *)
(* range combine, amortised growth and bisection.                          *)
(*                                                                         *)
(* The Rust buffer `tree: Vec<T>` is the sequence `tree`; Rust index k is  *)
(* TLA+ index k + 1 (see Get/Set).  T is one of three monoids of the       *)
(* repository, fixed at construction: Max<u_>, Coalesce<_> and Xor<u_>.    *)
(* A Coalesce value None is written 0 and Some(v) is written v >= 1.       *)
(***************************************************************************)
EXTENDS Integers, Sequences, FiniteSets, TLC

VARIABLES tree, len, monoid, logical, last, fault

vars == <<tree, len, monoid, logical, last, fault>>

\* Longest logical sequence explored.
MaxLen == 3
\* Largest element value explored (Max and Coalesce); Xor uses the words
\* of the smallest bit width that holds it.
MaxVal == 2

--------------------------------------------------------------------------
(* Integer helpers *)

RECURSIVE Pow2From(_, _)
Pow2From(p, n) == IF p >= n THEN p ELSE Pow2From(2 * p, n)

\* usize::next_power_of_two: the smallest power of two >= n (1 for n = 0).
next_power_of_two(n) == Pow2From(1, n)

RECURSIVE BitXor(_, _)
BitXor(a, b) ==
    IF a = 0 /\ b = 0 THEN 0
    ELSE (((a % 2) + (b % 2)) % 2) + 2 * BitXor(a \div 2, b \div 2)

Max2(a, b) == IF a >= b THEN a ELSE b
Min2(a, b) == IF a <= b THEN a ELSE b

--------------------------------------------------------------------------
(* The monoids *)

Monoids == {"Max", "Coalesce", "Xor"}

\* The element values of monoid m that the model draws inputs from.
Values(m) ==
    IF m = "Xor" THEN 0 .. (next_power_of_two(MaxVal + 1) - 1) ELSE 0 .. MaxVal

\* Monoid::identity: Max(T::min_value()), Coalesce(None), Xor(T::zero()).
identity(m) ==
    CASE m = "Max" -> 0
      [] m = "Coalesce" -> 0
      [] m = "Xor" -> 0

\* Max: std::cmp::max_by(base, other), the second when they are equal.
MaxOp(base, other) == IF base > other THEN base ELSE other

\* Coalesce: (Some(_), _) | (None, None) => base, (None, Some(_)) => other.
CoalesceOp(base, other) == IF base # 0 \/ other = 0 THEN base ELSE other

\* Xor: base ^ other.
XorOp(base, other) == BitXor(base, other)

\* Semigroup::op(base, other).
op(m, base, other) ==
    CASE m = "Max" -> MaxOp(base, other)
      [] m = "Coalesce" -> CoalesceOp(base, other)
      [] m = "Xor" -> XorOp(base, other)

--------------------------------------------------------------------------
(* Vec<T> primitives; a Rust index k is position k + 1 of the sequence *)

InBounds(t, k) == 0 <= k /\ k < Len(t)
Get(t, k) == t[k + 1]
Set(t, k, v) == [t EXCEPT ![k + 1] = v]

\* Vec::resize_with(n, f): truncate to n, or append copies of f().
resize_with(t, n, v) ==
    IF n <= Len(t) THEN SubSeq(t, 1, n)
    ELSE t \o [j \in 1 .. (n - Len(t)) |-> v]

--------------------------------------------------------------------------
(* SegmentTree; `self` is a record [tree, len, fault].  fault is TRUE once *)
(* an index into the buffer was out of bounds (a Rust panic).              *)

Self(t, n) == [tree |-> t, len |-> n, fault |-> FALSE]

new == Self(<<>>, 0)

capacity(n) == 2 * next_power_of_two(n)

\* Mutant of over_capacity: a length that fits exactly counts as over.
over_capacity_OrEqual(self, n) == capacity(self.len) <= capacity(n)

over_capacity(self, n) == capacity(self.len) < capacity(n)

leaf_offset(self) == next_power_of_two(self.len)

is_empty(self) == self.len = 0

\* self[..]: the leaves [leaf_offset, leaf_offset + len) as a sequence
\* (empty where the buffer holds no such slot).
leaves(self) ==
    LET lo == leaf_offset(self)
    IN  IF lo + self.len <= Len(self.tree)
        THEN [j \in 1 .. self.len |-> Get(self.tree, lo + j - 1)]
        ELSE <<>>

\* First loop of reconstruct: tree[leaf_offset + i] = d.
RECURSIVE WriteLeaves(_, _, _, _)
WriteLeaves(self, lo, data, i) ==
    IF i >= Len(data) THEN self
    ELSE IF ~InBounds(self.tree, lo + i) THEN [self EXCEPT !.fault = TRUE]
    ELSE WriteLeaves([self EXCEPT !.tree = Set(self.tree, lo + i, data[i + 1])],
                     lo, data, i + 1)

\* Second loop of reconstruct: for i in (1..leaf_offset).rev().
RECURSIVE Sweep(_, _, _)
Sweep(m, self, i) ==
    IF i < 1 THEN self
    ELSE IF ~InBounds(self.tree, 2 * i + 1) THEN [self EXCEPT !.fault = TRUE]
    ELSE Sweep(m,
               [self EXCEPT !.tree =
                    Set(self.tree, i,
                        op(m, Get(self.tree, 2 * i), Get(self.tree, 2 * i + 1)))],
               i - 1)

reconstruct(m, self, data) ==
    LET lo == leaf_offset(self)
        written == WriteLeaves(self, lo, data, 0)
    IN  IF written.fault THEN written ELSE Sweep(m, written, lo - 1)

\* Mutant of resize_upto: the leaves are not put back after the buffer grew.
resize_upto_NoRebuild(m, self, n) ==
    [self EXCEPT !.tree = resize_with(self.tree, capacity(n), identity(m)),
                 !.len = Max2(n, self.len)]

resize_upto(m, self, n) ==
    LET over == over_capacity(self, n)
        data == IF over THEN leaves(self) ELSE <<>>
        resized == [self EXCEPT !.tree = resize_with(self.tree, capacity(n), identity(m)),
                                !.len = Max2(n, self.len)]
    IN  IF over THEN reconstruct(m, resized, data) ELSE resized

\* Mutant of construct: the buffer is not resized before the leaves are written.
construct_NoResize(m, self, n, iter) == reconstruct(m, self, iter)

construct(m, self, n, iter) == reconstruct(m, resize_upto(m, self, n), iter)

\* Option<_> values.
Some(v) == <<"Some", v>>
None == <<"None">>

\* Mutant of Climb: the walk stops below the root (while node > 2).
RECURSIVE ClimbStopsEarly(_, _, _)
ClimbStopsEarly(m, self, node) ==
    IF node > 2 /\ ~self.fault
    THEN LET parent == node \div 2
         IN  IF ~InBounds(self.tree, 2 * parent + 1)
             THEN [self EXCEPT !.fault = TRUE]
             ELSE ClimbStopsEarly(m,
                        [self EXCEPT !.tree =
                             Set(self.tree, parent,
                                 op(m, Get(self.tree, 2 * parent),
                                       Get(self.tree, 2 * parent + 1)))],
                        parent)
    ELSE self

\* Mutant of Climb: the walk goes on to slot 0 (while node > 0).
RECURSIVE Climb_ToZero(_, _, _)
Climb_ToZero(m, self, node) ==
    IF node > 0 /\ ~self.fault
    THEN LET parent == node \div 2
         IN  IF ~InBounds(self.tree, 2 * parent + 1)
             THEN [self EXCEPT !.fault = TRUE]
             ELSE Climb_ToZero(m,
                        [self EXCEPT !.tree =
                             Set(self.tree, parent,
                                 op(m, Get(self.tree, 2 * parent),
                                       Get(self.tree, 2 * parent + 1)))],
                        parent)
    ELSE self

\* The walk of update_with from the written leaf to the root:
\* while node > 1 { node /= 2; tree[node] = op(tree[2 node], tree[2 node + 1]) }.
RECURSIVE Climb(_, _, _)
Climb(m, self, node) ==
    IF node > 1 /\ ~self.fault
    THEN LET parent == node \div 2
         IN  IF ~InBounds(self.tree, 2 * parent + 1)
             THEN [self EXCEPT !.fault = TRUE]
             ELSE Climb(m,
                        [self EXCEPT !.tree =
                             Set(self.tree, parent,
                                 op(m, Get(self.tree, 2 * parent),
                                       Get(self.tree, 2 * parent + 1)))],
                        parent)
    ELSE self

\* Mutant of ClimbOps: the root's recomputation is not counted.
RECURSIVE ClimbOps_BelowRoot(_)
ClimbOps_BelowRoot(node) == IF node > 2 THEN 1 + ClimbOps_BelowRoot(node \div 2) ELSE 0

\* The applications of Semigroup::op the walk of update_with makes from
\* node: one for each turn of `while node > 1 { node /= 2; ... }`.
RECURSIVE ClimbOps(_)
ClimbOps(node) == IF node > 1 THEN 1 + ClimbOps(node \div 2) ELSE 0

\* Mutant of update_with: f's result is not stored in the leaf.
update_with_NoStore(m, self, i, f) ==
    IF i < self.len
    THEN LET node == leaf_offset(self) + i
         IN  IF ~InBounds(self.tree, node)
             THEN [self |-> [self EXCEPT !.fault = TRUE], ret |-> None, calls |-> <<>>, ops |-> 0]
             ELSE LET old == Get(self.tree, node)
                  IN  [self |-> Climb(m, self, node),
                       ret |-> Some(old),
                       calls |-> <<old>>,
                       ops |-> ClimbOps(node)]
    ELSE [self |-> self, ret |-> None, calls |-> <<>>, ops |-> 0]

\* Mutant of update_with: the bound check is i <= len.
update_with_OffByOne(m, self, i, f) ==
    IF i <= self.len
    THEN LET node == leaf_offset(self) + i
         IN  IF ~InBounds(self.tree, node)
             THEN [self |-> [self EXCEPT !.fault = TRUE], ret |-> None, calls |-> <<>>, ops |-> 0]
             ELSE LET old == Get(self.tree, node)
                      result == f[old]
                  IN  [self |-> Climb(m, [self EXCEPT !.tree = Set(self.tree, node, result)], node),
                       ret |-> Some(old),
                       calls |-> <<old>>,
                       ops |-> ClimbOps(node)]
    ELSE [self |-> self, ret |-> None, calls |-> <<>>, ops |-> 0]

\* Mutant of update_with: the new value is returned, not the one replaced.
update_with_ReturnsNew(m, self, i, f) ==
    IF i < self.len
    THEN LET node == leaf_offset(self) + i
         IN  IF ~InBounds(self.tree, node)
             THEN [self |-> [self EXCEPT !.fault = TRUE], ret |-> None, calls |-> <<>>, ops |-> 0]
             ELSE LET old == Get(self.tree, node)
                      result == f[old]
                  IN  [self |-> Climb(m, [self EXCEPT !.tree = Set(self.tree, node, result)], node),
                       ret |-> Some(result),
                       calls |-> <<old>>,
                       ops |-> ClimbOps(node)]
    ELSE [self |-> self, ret |-> None, calls |-> <<>>, ops |-> 0]

\* update_with(i, f); f is a function on the element values.  The result
\* is [self, ret, calls, ops]: calls lists the arguments f was applied to,
\* ops counts the applications of Semigroup::op.
update_with(m, self, i, f) ==
    IF i < self.len
    THEN LET node == leaf_offset(self) + i
         IN  IF ~InBounds(self.tree, node)
             THEN [self |-> [self EXCEPT !.fault = TRUE], ret |-> None, calls |-> <<>>, ops |-> 0]
             ELSE LET old == Get(self.tree, node)
                      result == f[old]
                  IN  [self |-> Climb(m, [self EXCEPT !.tree = Set(self.tree, node, result)], node),
                       ret |-> Some(old),
                       calls |-> <<old>>,
                       ops |-> ClimbOps(node)]
    ELSE [self |-> self, ret |-> None, calls |-> <<>>, ops |-> 0]

\* Mutant of update: x is combined into the leaf (|old| op(old, x)).
update_Merges(m, self, i, x) == update_with(m, self, i, [v \in Values(m) |-> op(m, v, x)])

\* update(i, x) is update_with(i, |_| x).
update(m, self, i, x) == update_with(m, self, i, [v \in Values(m) |-> x])

push(m, self, x) ==
    LET resized == resize_upto(m, self, self.len + 1)
    IN  IF resized.fault THEN resized
        ELSE update(m, resized, resized.len - 1, x).self

\* The else branch of extend_with_length: push each of the first n items.
RECURSIVE PushAll(_, _, _, _)
PushAll(m, self, items, j) ==
    IF j > Len(items) \/ self.fault THEN self
    ELSE PushAll(m, push(m, self, items[j]), items, j + 1)

\* Mutant of extend_with_length: the bulk branch rebuilds from the new
\* items alone.
extend_with_length_DropsOld(m, self, n, iter) ==
    IF over_capacity(self, n)
    THEN LET resized == resize_upto(m, self, self.len + n)
         IN  IF resized.fault THEN resized ELSE reconstruct(m, resized, iter)
    ELSE LET taken == [j \in 1 .. n |-> IF j <= Len(iter) THEN iter[j] ELSE identity(m)]
         IN  PushAll(m, self, taken, 1)

extend_with_length(m, self, n, iter) ==
    IF over_capacity(self, n)
    THEN LET data == leaves(self) \o iter
             resized == resize_upto(m, self, self.len + n)
         IN  IF resized.fault THEN resized ELSE reconstruct(m, resized, data)
    ELSE LET taken == [j \in 1 .. n |-> IF j <= Len(iter) THEN iter[j] ELSE identity(m)]
         IN  PushAll(m, self, taken, 1)

extend_from_slice(m, self, slice) == extend_with_length(m, self, Len(slice), slice)

--------------------------------------------------------------------------
(* Ranges: a RangeBounds<usize> is a pair of bounds *)

Unbounded == <<"Unbounded">>
Included(k) == <<"Included", k>>
Excluded(k) == <<"Excluded", k>>

\* s..e, s..=e, .., s.., ..e
Range(s, e) == [start |-> Included(s), end |-> Excluded(e)]
RangeInclusive(s, e) == [start |-> Included(s), end |-> Included(e)]
RangeFull == [start |-> Unbounded, end |-> Unbounded]

\* Mutant of indices: a descending range is put in order.
indices_Swapping(self, range) ==
    LET start == CASE range.start = Unbounded -> 0
                   [] range.start[1] = "Excluded" -> Max2(range.start[2] + 1, 0)
                   [] range.start[1] = "Included" -> Max2(range.start[2], 0)
        end == CASE range.end = Unbounded -> self.len
                 [] range.end[1] = "Excluded" -> Min2(range.end[2], self.len)
                 [] range.end[1] = "Included" -> Min2(range.end[2] + 1, self.len)
    IN  [start |-> Min2(start, end), end |-> Max2(start, end)]

\* Mutant of indices: an inclusive end bound is taken as an exclusive one.
indices_InclusiveAsExclusive(self, range) ==
    LET start == CASE range.start = Unbounded -> 0
                   [] range.start[1] = "Excluded" -> Max2(range.start[2] + 1, 0)
                   [] range.start[1] = "Included" -> Max2(range.start[2], 0)
        end == CASE range.end = Unbounded -> self.len
                 [] range.end[1] = "Excluded" -> Min2(range.end[2], self.len)
                 [] range.end[1] = "Included" -> Min2(range.end[2], self.len)
    IN  [start |-> start, end |-> end]

indices(self, range) ==
    LET start == CASE range.start = Unbounded -> 0
                   [] range.start[1] = "Excluded" -> Max2(range.start[2] + 1, 0)
                   [] range.start[1] = "Included" -> Max2(range.start[2], 0)
        end == CASE range.end = Unbounded -> self.len
                 [] range.end[1] = "Excluded" -> Min2(range.end[2], self.len)
                 [] range.end[1] = "Included" -> Min2(range.end[2] + 1, self.len)
    IN  [start |-> start, end |-> end]

\* The loop of combine.  acc is [res, fault, iters, reads]: the accumulator,
\* whether a read was out of bounds, the iterations made and the buffer
\* indices read.
RECURSIVE CombineLoop(_, _, _, _, _)
CombineLoop(m, t, left, right, acc) ==
    IF ~(left < right) \/ acc.fault THEN acc
    ELSE LET lodd == left % 2 = 1
             faultL == lodd /\ ~InBounds(t, left)
             a1 == IF lodd /\ ~faultL
                   THEN [acc EXCEPT !.res = op(m, acc.res, Get(t, left)),
                                    !.reads = @ \cup {left}]
                   ELSE acc
             left1 == IF lodd THEN left + 1 ELSE left
             rodd == right % 2 = 1
             right1 == IF rodd THEN right - 1 ELSE right
             faultR == rodd /\ ~InBounds(t, right1)
             a2 == IF rodd /\ ~faultL /\ ~faultR
                   THEN [a1 EXCEPT !.res = op(m, Get(t, right1), a1.res),
                                   !.reads = @ \cup {right1}]
                   ELSE a1
         IN  CombineLoop(m, t, left1 \div 2, right1 \div 2,
                         [a2 EXCEPT !.fault = faultL \/ faultR, !.iters = @ + 1])

\* Mutant of combine: the leaves are taken to start at leaf_offset - 1.
combine_ZeroBased(m, self, range) ==
    LET ix == indices(self, range)
        lo == leaf_offset(self) - 1
    IN  CombineLoop(m, self.tree, lo + ix.start, lo + ix.end,
                    [res |-> identity(m), fault |-> FALSE, iters |-> 0, reads |-> {}])

combine(m, self, range) ==
    LET ix == indices(self, range)
        lo == leaf_offset(self)
    IN  CombineLoop(m, self.tree, lo + ix.start, lo + ix.end,
                    [res |-> identity(m), fault |-> FALSE, iters |-> 0, reads |-> {}])
--------------------------------------------------------------------------
(* Bisection.  A predicate cmp is [kind, c]: x >= c or x == c.  A result   *)
(* is Some(k), None, Panic (an index out of bounds, or end - start         *)
(* underflowing in a build with overflow checks) or Hang (the loop makes   *)
(* no progress).                                                           *)

Panic == <<"Panic">>
Hang == <<"Hang">>

Holds(cmp, v) ==
    CASE cmp.kind = "ge" -> v >= cmp.c
      [] cmp.kind = "eq" -> v = cmp.c

\* Mutant of GapOverOne: the loop runs while end - start > 0.
GapOverZero(start, end) == IF start <= end THEN end - start > 0 ELSE TRUE

\* `end - start > 1` on usize: with start > end the difference wraps to
\* 2^64 - (start - end), which is > 1 for every start - end < 2^64 - 1.
GapOverOne(start, end) == IF start <= end THEN end - start > 1 ELSE TRUE

\* Mutant of BisectLeaf: the leaf found is returned without applying cmp.
BisectLeaf_NoCheck(self, cmp, start) ==
    LET node == leaf_offset(self) + start
    IN  IF ~InBounds(self.tree, node) THEN Panic ELSE Some(start)

\* cmp(&self.tree[self.leaf_offset() + start]).then_some(start)
BisectLeaf(self, cmp, start) ==
    LET node == leaf_offset(self) + start
    IN  IF ~InBounds(self.tree, node) THEN Panic
        ELSE IF Holds(cmp, Get(self.tree, node)) THEN Some(start)
        ELSE None

\* Mutant of BisectLeftLoop: the window's end is moved to mid + 1.
RECURSIVE BisectLeftLoop_MidPlusOne(_, _, _, _, _, _, _)
BisectLeftLoop_MidPlusOne(m, self, cmp, start, end, checks, iters) ==
    IF start > end /\ checks THEN [ret |-> Panic, iters |-> iters]
    ELSE IF ~GapOverOne(start, end)
    THEN [ret |-> BisectLeaf(self, cmp, start), iters |-> iters]
    ELSE LET mid == (start + end) \div 2
             lower == combine(m, self, Range(start, mid))
             goLeft == Holds(cmp, lower.res)
             start1 == IF goLeft THEN start ELSE mid
             end1 == IF goLeft THEN mid + 1 ELSE end
         IN  IF lower.fault THEN [ret |-> Panic, iters |-> iters + 1]
             ELSE IF start1 = start /\ end1 = end THEN [ret |-> Hang, iters |-> iters + 1]
             ELSE BisectLeftLoop_MidPlusOne(m, self, cmp, start1, end1, checks, iters + 1)

\* The loop of bisect_left; the result is [ret, iters].
RECURSIVE BisectLeftLoop(_, _, _, _, _, _, _)
BisectLeftLoop(m, self, cmp, start, end, checks, iters) ==
    IF start > end /\ checks THEN [ret |-> Panic, iters |-> iters]
    ELSE IF ~GapOverOne(start, end)
    THEN [ret |-> BisectLeaf(self, cmp, start), iters |-> iters]
    ELSE LET mid == (start + end) \div 2
             lower == combine(m, self, Range(start, mid))
             goLeft == Holds(cmp, lower.res)
             start1 == IF goLeft THEN start ELSE mid
             end1 == IF goLeft THEN mid ELSE end
         IN  IF lower.fault THEN [ret |-> Panic, iters |-> iters + 1]
             ELSE IF start1 = start /\ end1 = end THEN [ret |-> Hang, iters |-> iters + 1]
             ELSE BisectLeftLoop(m, self, cmp, start1, end1, checks, iters + 1)

\* bisect_left(range, cmp); checks: the build has overflow checks.
bisect_left(m, self, range, cmp, checks) ==
    LET ix == indices(self, range)
    IN  BisectLeftLoop(m, self, cmp, ix.start, ix.end, checks, 0)

\* Mutant of BisectRightLoop: cmp is applied to the lower half start..mid.
RECURSIVE BisectRightLoop_LowerHalf(_, _, _, _, _, _, _)
BisectRightLoop_LowerHalf(m, self, cmp, start, end, checks, iters) ==
    IF start > end /\ checks THEN [ret |-> Panic, iters |-> iters]
    ELSE IF ~GapOverOne(start, end)
    THEN [ret |-> BisectLeaf(self, cmp, start), iters |-> iters]
    ELSE LET mid == (start + end) \div 2
             upper == combine(m, self, Range(start, mid))
             goRight == Holds(cmp, upper.res)
             start1 == IF goRight THEN mid ELSE start
             end1 == IF goRight THEN end ELSE mid
         IN  IF upper.fault THEN [ret |-> Panic, iters |-> iters + 1]
             ELSE IF start1 = start /\ end1 = end THEN [ret |-> Hang, iters |-> iters + 1]
             ELSE BisectRightLoop_LowerHalf(m, self, cmp, start1, end1, checks, iters + 1)

\* The loop of bisect_right; the result is [ret, iters].
RECURSIVE BisectRightLoop(_, _, _, _, _, _, _)
BisectRightLoop(m, self, cmp, start, end, checks, iters) ==
    IF start > end /\ checks THEN [ret |-> Panic, iters |-> iters]
    ELSE IF ~GapOverOne(start, end)
    THEN [ret |-> BisectLeaf(self, cmp, start), iters |-> iters]
    ELSE LET mid == (start + end) \div 2
             upper == combine(m, self, Range(mid, end))
             goRight == Holds(cmp, upper.res)
             start1 == IF goRight THEN mid ELSE start
             end1 == IF goRight THEN end ELSE mid
         IN  IF upper.fault THEN [ret |-> Panic, iters |-> iters + 1]
             ELSE IF start1 = start /\ end1 = end THEN [ret |-> Hang, iters |-> iters + 1]
             ELSE BisectRightLoop(m, self, cmp, start1, end1, checks, iters + 1)

\* Mutant of bisect_right: it searches as bisect_left does.
bisect_right_AsLeft(m, self, range, cmp, checks) ==
    bisect_left(m, self, range, cmp, checks)

bisect_right(m, self, range, cmp, checks) ==
    LET ix == indices(self, range)
    IN  BisectRightLoop(m, self, cmp, ix.start, ix.end, checks, 0)

--------------------------------------------------------------------------
(* Iteration (segment_tree/iter.rs).  An iterator is the sequence `inner`  *)
(* of the items it has yet to yield.                                       *)

\* Vec::split_off(at): self keeps [0, at), [at, len) is returned; it panics
\* if at > len.
split_off(t, at) ==
    IF at > Len(t) THEN [fault |-> TRUE, kept |-> t, off |-> <<>>]
    ELSE [fault |-> FALSE, kept |-> SubSeq(t, 1, at), off |-> SubSeq(t, at + 1, Len(t))]

\* IntoIterator for SegmentTree<T>: [fault, inner], whether a split
\* panicked and the iterator's inner sequence.
into_iter(self) ==
    LET leaf == split_off(self.tree, leaf_offset(self))
        out_of_range == split_off(leaf.off, self.len)
    IN  [fault |-> leaf.fault \/ out_of_range.fault, inner |-> out_of_range.kept]

\* SegmentTree::iter and IntoIterator for &SegmentTree<T>: self[..].iter().
iter(self) == leaves(self)

\* Iterator::next and DoubleEndedIterator::next_back of the inner iterator:
\* [item, inner], the item yielded and the iterator left.
next(inner) ==
    IF inner = <<>> THEN [item |-> None, inner |-> inner]
    ELSE [item |-> Some(Head(inner)), inner |-> Tail(inner)]

next_back(inner) ==
    IF inner = <<>> THEN [item |-> None, inner |-> inner]
    ELSE [item |-> Some(inner[Len(inner)]), inner |-> SubSeq(inner, 1, Len(inner) - 1)]

\* The items a loop takes from the iterator until it yields None: from the
\* front, or with .rev() from the back.
RECURSIVE Collect(_, _, _)
Collect(inner, rev, got) ==
    LET step == IF rev THEN next_back(inner) ELSE next(inner)
    IN  IF step.item = None THEN got
        ELSE Collect(step.inner, rev, Append(got, step.item[2]))

--------------------------------------------------------------------------
(* The state machine.  tree, len: the SegmentTree; fault: the program has  *)
(* panicked; monoid: the type parameter T; logical: the sequence of        *)
(* elements the caller has put in, kept beside the tree as the reference;  *)
(* last: the call the caller has made and not yet taken the result of,     *)
(* with its arguments and what it returned; Idle between calls.            *)

this == [tree |-> tree, len |-> len, fault |-> fault]

\* Input sequences of length n over the values of m.
Seqs(m, n) == [1 .. n -> Values(m)]

\* The closures handed to update_with: successor (wrapping) and halving.
Closures(m) ==
    { [v \in Values(m) |-> (v + 1) % Cardinality(Values(m))],
      [v \in Values(m) |-> v \div 2] }

\* The half-open ranges s..e handed to the queries: positions up to one
\* past len, descending and out-of-bounds ones included.
Ranges(n) == { Range(s, e) : s \in 0 .. (n + 1), e \in 0 .. (n + 1) }

\* The RangeBounds of every form handed to the queries: s..e, s..=e, s..,
\* ..e, ..=e and .., with positions up to one past len.
RangeBounds(n) ==
    { [start |-> s, end |-> e] :
        s \in {Unbounded} \cup { Included(k) : k \in 0 .. (n + 1) },
        e \in {Unbounded} \cup { Excluded(k) : k \in 0 .. (n + 1) }
                          \cup { Included(k) : k \in 0 .. (n + 1) } }

\* The indices handed to update: every position up to one past len.
Indices(n) == 0 .. (n + 1)

\* The caller holds no result and is free to make the next call.
Idle == [op |-> "idle"]

Become(self) ==
    /\ tree' = self.tree
    /\ len' = self.len
    /\ fault' = self.fault

Init ==
    /\ monoid \in Monoids
    /\ tree = new.tree
    /\ len = new.len
    /\ fault = new.fault
    /\ logical = <<>>
    /\ last = Idle

\* Whether the tree held is the one Self::new() makes.
IsNew == tree = new.tree /\ len = new.len

\* SegmentTree::from(v) = Self::new().construct(v.len(), v).
From ==
    /\ ~fault
    /\ last = Idle
    /\ IsNew
    /\ \E n \in 0 .. MaxLen : \E v \in Seqs(monoid, n) :
       \E r \in {construct(monoid, new, Len(v), v)} :
            /\ Become(r)
            /\ logical' = v
            /\ last' = [op |-> "from"]
            /\ UNCHANGED monoid

\* iter.collect(): from_iter, with an exact or an inexact size_hint.
FromIter ==
    /\ ~fault
    /\ last = Idle
    /\ IsNew
    /\ \E n \in 0 .. MaxLen : \E v \in Seqs(monoid, n) : \E exact \in BOOLEAN :
       \E r \in {IF exact THEN construct(monoid, new, n, v)
                          ELSE construct(monoid, new, Len(v), v)} :
            /\ Become(r)
            /\ logical' = v
            /\ last' = [op |-> "from_iter"]
            /\ UNCHANGED monoid

Update ==
    /\ ~fault
    /\ last = Idle
    /\ \E i \in Indices(len) : \E x \in Values(monoid) :
       \E r \in {update(monoid, this, i, x)} :
            /\ Become(r.self)
            /\ logical' = IF i < Len(logical) THEN [logical EXCEPT ![i + 1] = x]
                                              ELSE logical
            /\ last' = [op |-> "update", i |-> i, x |-> x, ret |-> r.ret,
                        calls |-> r.calls, ops |-> r.ops]
            /\ UNCHANGED monoid

UpdateWith ==
    /\ ~fault
    /\ last = Idle
    /\ \E i \in Indices(len) : \E f \in Closures(monoid) :
       \E r \in {update_with(monoid, this, i, f)} :
            /\ Become(r.self)
            /\ logical' = IF i < Len(logical)
                          THEN [logical EXCEPT ![i + 1] = f[logical[i + 1]]]
                          ELSE logical
            /\ last' = [op |-> "update_with", i |-> i, f |-> f, ret |-> r.ret,
                        calls |-> r.calls, ops |-> r.ops]
            /\ UNCHANGED monoid

Push ==
    /\ ~fault
    /\ last = Idle
    /\ len < MaxLen
    /\ \E x \in Values(monoid) : \E r \in {push(monoid, this, x)} :
            /\ Become(r)
            /\ logical' = Append(logical, x)
            /\ last' = [op |-> "push", x |-> x,
                        rebuilt |-> over_capacity(this, len + 1)]
            /\ UNCHANGED monoid

\* `for x in items { tree.push(x) }` on a tree just made by new(), as in
\* tests::test_push: the rebuilds (resize_upto finding over_capacity) made
\* by the pushes from the j-th on, added to count.
RECURSIVE PushRebuilds(_, _, _, _, _)
PushRebuilds(m, self, items, j, count) ==
    IF j > Len(items) THEN count
    ELSE PushRebuilds(m, push(m, self, items[j]), items, j + 1,
                      IF over_capacity(self, self.len + 1) THEN count + 1 ELSE count)

\* tree.extend(iter): Extend::extend, with an exact or an inexact size_hint.
Extend ==
    /\ ~fault
    /\ last = Idle
    /\ \E n \in 0 .. (MaxLen - len) : \E v \in Seqs(monoid, n) : \E exact \in BOOLEAN :
       \E r \in {IF exact THEN extend_with_length(monoid, this, n, v)
                          ELSE extend_from_slice(monoid, this, v)} :
            /\ Become(r)
            /\ logical' = logical \o v
            /\ last' = [op |-> "extend", k |-> n, bulk |-> over_capacity(this, n)]
            /\ UNCHANGED monoid

ExtendFromSlice ==
    /\ ~fault
    /\ last = Idle
    /\ \E n \in 0 .. (MaxLen - len) : \E v \in Seqs(monoid, n) :
       \E r \in {extend_from_slice(monoid, this, v)} :
            /\ Become(r)
            /\ logical' = logical \o v
            /\ last' = [op |-> "extend_from_slice", k |-> n, bulk |-> over_capacity(this, n)]
            /\ UNCHANGED monoid

Combine ==
    /\ ~fault
    /\ last = Idle
    /\ \E range \in Ranges(len) : \E r \in {combine(monoid, this, range)} :
            /\ fault' = r.fault
            /\ last' = [op |-> "combine", range |-> range, ret |-> r.res]
            /\ UNCHANGED <<tree, len, monoid, logical>>

\* combine(range) with a range of any form; ix is the half-open interval
\* indices made of it, iters and reads the loop's iterations and the buffer
\* indices it read.
CombineRange ==
    /\ ~fault
    /\ last = Idle
    /\ \E range \in RangeBounds(len) : \E r \in {combine(monoid, this, range)} :
            /\ fault' = r.fault
            /\ last' = [op |-> "combine_range", range |-> range, ret |-> r.res,
                        ix |-> indices(this, range), iters |-> r.iters,
                        reads |-> r.reads]
            /\ UNCHANGED <<tree, len, monoid, logical>>

\* The predicates handed to bisect_left and bisect_right.
Predicates(m) ==
    { [kind |-> "ge", c |-> c] : c \in 0 .. (Cardinality(Values(m))) }
        \cup { [kind |-> "eq", c |-> c] : c \in Values(m) }

\* The builds in which a call with this range differs: end - start
\* underflows only where the normalised start is beyond the end.
Builds(self, range) ==
    IF indices(self, range).start > indices(self, range).end THEN BOOLEAN ELSE {TRUE}

BisectLeft ==
    /\ ~fault
    /\ last = Idle
    /\ \E range \in Ranges(len) : \E cmp \in Predicates(monoid) :
       \E checks \in Builds(this, range) :
       \E r \in {bisect_left(monoid, this, range, cmp, checks)} :
            /\ fault' = (r.ret = Panic)
            /\ last' = [op |-> "bisect_left", range |-> range, cmp |-> cmp,
                        checks |-> checks, ret |-> r.ret, iters |-> r.iters]
            /\ UNCHANGED <<tree, len, monoid, logical>>

BisectRight ==
    /\ ~fault
    /\ last = Idle
    /\ \E range \in Ranges(len) : \E cmp \in Predicates(monoid) :
       \E checks \in Builds(this, range) :
       \E r \in {bisect_right(monoid, this, range, cmp, checks)} :
            /\ fault' = (r.ret = Panic)
            /\ last' = [op |-> "bisect_right", range |-> range, cmp |-> cmp,
                        checks |-> checks, ret |-> r.ret, iters |-> r.iters]
            /\ UNCHANGED <<tree, len, monoid, logical>>

\* tree.iter() or `for x in &tree`, forwards or with .rev(), collected;
\* size is ExactSizeIterator::len of the fresh iterator.
Iter ==
    /\ ~fault
    /\ last = Idle
    /\ \E rev \in BOOLEAN : \E by \in {"iter", "for"} : \E inner \in {iter(this)} :
            /\ last' = [op |-> by, rev |-> rev, panic |-> FALSE, size |-> Len(inner),
                        ret |-> Collect(inner, rev, <<>>)]
            /\ UNCHANGED <<tree, len, fault, monoid, logical>>

\* tree.clone().into_iter(), forwards or with .rev(), collected.
IntoIter ==
    /\ ~fault
    /\ last = Idle
    /\ \E rev \in BOOLEAN : \E r \in {into_iter(this)} :
            /\ fault' = r.fault
            /\ last' = [op |-> "into_iter", rev |-> rev, panic |-> r.fault,
                        size |-> IF r.fault THEN 0 ELSE Len(r.inner),
                        ret |-> IF r.fault THEN <<>> ELSE Collect(r.inner, rev, <<>>)]
            /\ UNCHANGED <<tree, len, monoid, logical>>

\* The caller takes the result of the call; the tree is as the call left it.
Return ==
    /\ last # Idle
    /\ last' = Idle
    /\ UNCHANGED <<tree, len, fault, monoid, logical>>

Mutate == From \/ FromIter \/ Update \/ UpdateWith \/ Push \/ Extend \/ ExtendFromSlice

Next == Mutate \/ Combine \/ Return

Spec == Init /\ [][Next]_vars

\* The tree under mutation and bisection.
NextBisect == Mutate \/ BisectLeft \/ BisectRight \/ Return

SpecBisect == Init /\ [][NextBisect]_vars

\* The tree under mutation and iteration.
NextIter == Mutate \/ Iter \/ IntoIter \/ Return

SpecIter == Init /\ [][NextIter]_vars

\* The tree under mutation and combine over ranges of every form.
NextRange == Mutate \/ CombineRange \/ Return

SpecRange == Init /\ [][NextRange]_vars
--------------------------------------------------------------------------
(* Reference notions the claims are stated with *)

\* The left-to-right fold of op over a[s], ..., a[e-1] (0-based), from identity.
RECURSIVE FoldFrom(_, _, _, _, _)
FoldFrom(m, a, j, e, acc) ==
    IF j >= e THEN acc ELSE FoldFrom(m, a, j + 1, e, op(m, acc, a[j + 1]))

Fold(m, a, s, e) == FoldFrom(m, a, s, e, identity(m))

\* The tree after the step being taken.
thisNext == [tree |-> tree', len |-> len', fault |-> fault']

\* combine(j..=j) on the tree self.
Single(self, j) == combine(monoid, self, RangeInclusive(j, j)).res

\* The arguments s..e of the range handed to the last query.
ArgStart == last.range.start[2]
ArgEnd == last.range.end[2]

--------------------------------------------------------------------------
(* C1 .. C7 *)

\* C1: after construction and after every mutating operation, every
\* internal node i, 1 <= i < leaf_offset, holds op(tree[2i], tree[2i+1]).
C1_InternalNodes ==
    /\ ~fault
    /\ \A i \in 1 .. (leaf_offset(this) - 1) :
          /\ InBounds(tree, 2 * i + 1)
          /\ Get(tree, i) = op(monoid, Get(tree, 2 * i), Get(tree, 2 * i + 1))

C1_Witness ==
    /\ last.op = "update"
    /\ last.ret # None
    /\ last.ret # Some(last.x)
    /\ len = MaxLen
    /\ leaf_offset(this) > 2

\* C2: combine(s..e), s <= e <= len, is the left-to-right fold of op over
\* the logical elements s .. e-1, for a non-commutative monoid too.
C2_CombineIsFold ==
    (last.op = "combine" /\ ArgStart <= ArgEnd /\ ArgEnd <= len)
        => (~fault /\ last.ret = Fold(monoid, logical, ArgStart, ArgEnd))

\* C3: update(i, x) with i < len makes combine(i..=i) equal x and leaves
\* every other single-element combine, and len, as they were.
C3_UpdateSetsOneLeaf ==
    [][(last'.op = "update" /\ last'.i < len)
          => /\ len' = len
             /\ ~fault'
             /\ \A j \in 0 .. (len - 1) :
                   Single(thisNext, j) = IF j = last'.i THEN last'.x
                                         ELSE Single(this, j)]_vars

C3_Witness ==
    /\ last.op = "update"
    /\ last.ret # None
    /\ last.ret # Some(last.x)
    /\ last.i > 0
    /\ len > last.i + 1

\* C4: after new() and pushes a[0], ..., a[n-1], every combine agrees with
\* that of the tree built in bulk from the same sequence, after each push.
C4_PushMatchesBulk ==
    (IsNew \/ last.op = "push")
        => /\ ~fault
           /\ len = Len(logical)
           /\ \A range \in Ranges(len) :
                 combine(monoid, this, range).res
                     = combine(monoid, construct(monoid, new, Len(logical), logical),
                               range).res

C4_Witness ==
    /\ last.op = "push"
    /\ len = MaxLen
    /\ \A j \in 1 .. len : logical[j] # identity(monoid)

\* C5: combine on an empty range i..i (i <= len) or on a descending range
\* (start > end, a start beyond len included) is identity, without a fault.
C5_EmptyRangeIsIdentity ==
    (last.op = "combine" /\ (ArgStart > ArgEnd \/ (ArgStart = ArgEnd /\ ArgStart <= len)))
        => (~fault /\ last.ret = identity(monoid))

C5_Witness ==
    /\ last.op = "combine"
    /\ ArgStart > ArgEnd
    /\ ArgStart <= len
    /\ Fold(monoid, logical, ArgEnd, ArgStart) # identity(monoid)

\* C6: update and update_with at i >= len return None, do not call f, do
\* not fault, and leave the buffer and len as they were.
C6_UpdateOutOfRange ==
    [][(last'.op \in {"update", "update_with"} /\ last'.i >= len)
          => /\ last'.ret = None
             /\ last'.calls = <<>>
             /\ ~fault'
             /\ tree' = tree
             /\ len' = len]_vars

C6_Witness ==
    /\ last.op = "update_with"
    /\ last.i = len
    /\ len > 0
    /\ len < leaf_offset(this)

\* C7: update(i, x), i < len, returns Some of the value element i held;
\* update_with(i, f) calls f once, on that value, stores what f returned
\* and returns Some of that value.
C7_UpdateReturnsPrevious ==
    [][(last'.op \in {"update", "update_with"} /\ last'.i < len)
          => /\ last'.ret = Some(logical[last'.i + 1])
             /\ last'.calls = <<logical[last'.i + 1]>>
             /\ leaves(thisNext)[last'.i + 1]
                  = IF last'.op = "update" THEN last'.x
                    ELSE last'.f[logical[last'.i + 1]]]_vars

C7_Witness ==
    /\ last.op = "update_with"
    /\ last.ret # None
    /\ last.f[last.ret[2]] # last.ret[2]
    /\ len = MaxLen
--------------------------------------------------------------------------
(* C8 .. C10: bisection *)

\* The last query was given a non-empty range within the tree.
NonEmptyInBounds == ArgStart < ArgEnd /\ ArgEnd <= len

\* cmp on the combine of the prefix start..k+1, and of the suffix k..end.
PrefixHolds(k) == Holds(last.cmp, combine(monoid, this, Range(ArgStart, k + 1)).res)
SuffixHolds(k) == Holds(last.cmp, combine(monoid, this, Range(k, ArgEnd)).res)

\* cmp on logical element k.
LeafHolds(k) == Holds(last.cmp, logical[k + 1])

\* Some of the least (greatest) member of a set of indices, None if empty.
SomeLeast(K) == IF K = {} THEN None ELSE Some(CHOOSE k \in K : \A j \in K : k <= j)
SomeGreatest(K) == IF K = {} THEN None ELSE Some(CHOOSE k \in K : \A j \in K : k >= j)

InRange == ArgStart .. (ArgEnd - 1)

\* cmp, once true of a prefix (suffix) combine, stays true as it grows.
MonotonePrefix == \A k \in ArgStart .. (ArgEnd - 2) : PrefixHolds(k) => PrefixHolds(k + 1)
MonotoneSuffix == \A k \in (ArgStart + 1) .. (ArgEnd - 1) : SuffixHolds(k) => SuffixHolds(k - 1)

\* cmp holds of the combine of a non-empty part of the range exactly when
\* it holds of one of the leaves in that part.
LeafWise ==
    \A a \in InRange : \A b \in (a + 1) .. ArgEnd :
        Holds(last.cmp, combine(monoid, this, Range(a, b)).res)
            <=> \E j \in a .. (b - 1) : LeafHolds(j)

\* C8 as stated, on the non-empty ranges within the tree: for cmp monotonic
\* over the prefix combines, bisect_left returns Some of the smallest k with
\* cmp(combine(start..k+1)), None if there is none.
C8_Original ==
    (last.op = "bisect_left" /\ NonEmptyInBounds /\ MonotonePrefix)
        => last.ret = SomeLeast({k \in InRange : PrefixHolds(k)})

\* C8 amended: for cmp that holds of a combine exactly when it holds of a
\* leaf combined, on a non-empty range within the tree, bisect_left returns
\* Some of the smallest k with cmp(combine(start..k+1)), None if none.
C8_BisectLeftLeafWise ==
    (last.op = "bisect_left" /\ NonEmptyInBounds /\ LeafWise)
        => /\ MonotonePrefix
           /\ last.ret = SomeLeast({k \in InRange : PrefixHolds(k)})

C8_Witness ==
    /\ last.op = "bisect_left"
    /\ NonEmptyInBounds
    /\ LeafWise
    /\ monoid = "Coalesce"
    /\ ArgEnd - ArgStart >= 3
    /\ last.ret = Some(ArgStart + 1)

\* C9 as stated, on the non-empty ranges within the tree: for cmp monotonic
\* over the suffix combines, bisect_right returns Some of the largest k with
\* cmp(combine(k..end)), None if there is none.
C9_Original ==
    (last.op = "bisect_right" /\ NonEmptyInBounds /\ MonotoneSuffix)
        => last.ret = SomeGreatest({k \in InRange : SuffixHolds(k)})

\* C9 amended: for cmp that holds of a combine exactly when it holds of a
\* leaf combined, on a non-empty range within the tree, bisect_right returns
\* Some of the largest k with cmp(combine(k..end)), None if none.
C9_BisectRightLeafWise ==
    (last.op = "bisect_right" /\ NonEmptyInBounds /\ LeafWise)
        => /\ MonotoneSuffix
           /\ last.ret = SomeGreatest({k \in InRange : SuffixHolds(k)})

C9_Witness ==
    /\ last.op = "bisect_right"
    /\ NonEmptyInBounds
    /\ LeafWise
    /\ monoid = "Coalesce"
    /\ ArgEnd - ArgStart >= 3
    /\ last.ret = Some(ArgStart + 1)

\* C10: with Max and cmp = (x >= c), on a non-empty range within the tree,
\* bisect_left returns Some of the smallest index in the range whose leaf
\* satisfies cmp, None if no leaf in the range does.
C10_BisectLeftMaxThreshold ==
    (last.op = "bisect_left" /\ monoid = "Max" /\ last.cmp.kind = "ge" /\ NonEmptyInBounds)
        => last.ret = SomeLeast({k \in InRange : LeafHolds(k)})

C10_Witness ==
    /\ last.op = "bisect_left"
    /\ monoid = "Max"
    /\ last.cmp.kind = "ge"
    /\ NonEmptyInBounds
    /\ ArgEnd - ArgStart >= 3
    /\ last.ret = Some(ArgStart + 1)
    /\ LeafHolds(ArgStart + 2)

\* C11: with Max and cmp = (x >= c), on a non-empty range within the tree
\* (after updates too), bisect_right returns Some of the largest index in
\* the range whose leaf satisfies cmp, None if no leaf in the range does.
C11_BisectRightMaxThreshold ==
    (last.op = "bisect_right" /\ monoid = "Max" /\ last.cmp.kind = "ge" /\ NonEmptyInBounds)
        => last.ret = SomeGreatest({k \in InRange : LeafHolds(k)})

C11_Witness ==
    /\ last.op = "bisect_right"
    /\ monoid = "Max"
    /\ last.cmp.kind = "ge"
    /\ NonEmptyInBounds
    /\ ArgEnd - ArgStart >= 3
    /\ last.ret = Some(ArgStart + 1)
    /\ LeafHolds(ArgStart)

\* C12: bisect_left and bisect_right on an empty range (start = end), a
\* descending range (start > end) or a range starting at or beyond len
\* return None, with no panic, no underflow of end - start (which shows as
\* Panic or Hang) and no buffer access out of bounds.
C12_BisectEmptyRangeIsNone ==
    (last.op \in {"bisect_left", "bisect_right"} /\ (ArgStart >= ArgEnd \/ ArgStart >= len))
        => (~fault /\ last.ret = None)

--------------------------------------------------------------------------
(* C13 .. C20 *)

\* The sequence a in reverse order.
Reversed(a) == [j \in 1 .. Len(a) |-> a[Len(a) + 1 - j]]

\* C13: iterating a tree (into_iter, iter, or for over a reference) yields
\* exactly len items, the logical elements in index order (updates
\* applied), neither padding nor internal nodes; with .rev() it yields the
\* same items in reverse order.
C13_IterationIsLogical ==
    (last.op \in {"iter", "for", "into_iter"})
        => /\ ~last.panic
           /\ Len(last.ret) = len
           /\ last.size = len
           /\ last.ret = IF last.rev THEN Reversed(logical) ELSE logical

\* C14: extend(iter) and extend_from_slice(s) with k elements, on any
\* reachable tree holding a (the tree of new(), k = 0 and both growth modes
\* included): afterwards len = |a| + k, the elements are a followed by the
\* k new ones in order, and combine(..) is the fold of that concatenation.
C14_ExtendAppends ==
    [][(last'.op \in {"extend", "extend_from_slice"})
          => /\ ~fault'
             /\ len' = len + last'.k
             /\ Len(logical') = len'
             /\ \A j \in 0 .. (len - 1) : Single(thisNext, j) = Single(this, j)
             /\ \A j \in 0 .. (len' - 1) : Single(thisNext, j) = logical'[j + 1]
             /\ combine(monoid, thisNext, RangeFull).res
                    = Fold(monoid, logical', 0, len')]_vars

C14_Witness ==
    /\ last.op = "extend"
    /\ last.bulk
    /\ last.k >= 2
    /\ len > last.k
    /\ \A j \in 1 .. len : logical[j] # identity(monoid)
    /\ \E i, j \in 1 .. len : logical[i] # logical[j]

\* C15: a tree built from an empty sequence (From<Vec>, collect) has len 0,
\* is_empty() true, leaf_offset 1, a buffer of exactly two slots, both
\* identity, and combine(..) = combine(0..0) = identity.
C15_EmptyTree ==
    (last.op \in {"from", "from_iter"} /\ logical = <<>>)
        => /\ ~fault
           /\ len = 0
           /\ is_empty(this)
           /\ leaf_offset(this) = 1
           /\ tree = <<identity(monoid), identity(monoid)>>
           /\ combine(monoid, this, RangeFull) = combine(monoid, this, Range(0, 0))
           /\ ~combine(monoid, this, Range(0, 0)).fault
           /\ combine(monoid, this, Range(0, 0)).res = identity(monoid)

C15_Witness ==
    /\ last.op = "from"
    /\ logical = <<>>
    /\ ~IsNew
    /\ Len(tree) = capacity(0)

\* combine on the tree held, of the range from bound s to bound e.
CombineOf(s, e) == combine(monoid, this, [start |-> s, end |-> e]).res

\* C16: combine normalises its range: s..=e is s..e+1, an unbounded start
\* is 0, an unbounded end is len, and an end beyond len gives what end = len
\* gives (truncated, not rejected).
C16_RangeNormalised ==
    (last.op = "combine_range")
        => LET s == last.range.start
               e == last.range.end
           IN  /\ ~fault
               /\ (e # Unbounded /\ e[1] = "Included")
                     => last.ret = CombineOf(s, Excluded(e[2] + 1))
               /\ (s = Unbounded) => last.ret = CombineOf(Included(0), e)
               /\ (e = Unbounded) => last.ret = CombineOf(s, Excluded(len))
               /\ (e # Unbounded /\ e[1] = "Excluded" /\ e[2] > len)
                     => last.ret = CombineOf(s, Excluded(len))
               /\ (e # Unbounded /\ e[1] = "Included" /\ e[2] + 1 > len)
                     => last.ret = CombineOf(s, Excluded(len))

C16_Witness ==
    /\ last.op = "combine_range"
    /\ last.range.start = Unbounded
    /\ last.range.end = Included(len)
    /\ len = MaxLen
    /\ last.ret # identity(monoid)
    /\ last.ret # CombineOf(Included(0), Excluded(len - 1))

\* C17: in every reachable state the slots leaf_offset + j, j < len, hold
\* the user data in order, and the leaf slots leaf_offset + len up to
\* 2 * leaf_offset - 1 hold identity.
C17_LeafLayout ==
    LET lo == leaf_offset(this)
    IN  /\ \A j \in 0 .. (len - 1) :
              InBounds(tree, lo + j) /\ Get(tree, lo + j) = logical[j + 1]
        /\ \A k \in (lo + len) .. (2 * lo - 1) :
              InBounds(tree, k) /\ Get(tree, k) = identity(monoid)

\* C18: in every reachable state, the tree of new() or Default included,
\* the buffer has 2 * next_power_of_two(len) slots: half its length is
\* leaf_offset.
C18_BufferLength ==
    /\ Len(tree) = 2 * next_power_of_two(len)
    /\ Len(tree) = 2 * leaf_offset(this)

\* C19: resize_upto(n) in a reachable state, with n >= len and
\* capacity(n) = capacity(len), leaves the buffer exactly as it was and
\* sets len to n.
C19_ResizeWithinCapacity ==
    \A n \in len .. (MaxLen + 1) :
        (capacity(n) = capacity(len))
            => resize_upto(monoid, this, n) = [this EXCEPT !.len = n]

\* C20: resize_upto(n) never truncates: for every n, smaller than len too,
\* afterwards len is max(n, old len), every element stored before is at its
\* index with its value, and the buffer has 2 * next_power_of_two(len) slots.
C20_ResizeNeverTruncates ==
    \A n \in 0 .. (MaxLen + 1) :
        LET resized == resize_upto(monoid, this, n)
        IN  /\ ~resized.fault
            /\ resized.len = Max2(n, len)
            /\ Len(resized.tree) = 2 * next_power_of_two(resized.len)
            /\ \A j \in 0 .. (len - 1) :
                  /\ InBounds(resized.tree, leaf_offset(resized) + j)
                  /\ Get(resized.tree, leaf_offset(resized) + j) = logical[j + 1]

--------------------------------------------------------------------------
(* C21 .. C30 *)

\* C21: extend of k elements onto a tree of length len takes the bulk
\* branch (extract, resize, reconstruct) exactly when capacity(len + k) >
\* capacity(len), and otherwise pushes the k elements one by one.
C21_BulkWhenTotalExceeds ==
    (last.op \in {"extend", "extend_from_slice"})
        => (last.bulk <=> capacity(len) > capacity(len - last.k))

\* The least e with 2^e >= n (n >= 1).
RECURSIVE CeilLog2(_)
CeilLog2(n) == IF n <= 1 THEN 0 ELSE 1 + CeilLog2((n + 1) \div 2)

\* C22 as stated: an in-range update or update_with applies the operation
\* exactly ceil(log2(capacity)) times, capacity = 2 * next_power_of_two(len).
C22_Original ==
    (last.op \in {"update", "update_with"} /\ last.ret # None)
        => last.ops = CeilLog2(capacity(len))

\* C22 amended: an in-range update or update_with applies the operation
\* exactly log2(leaf_offset) = ceil(log2(capacity)) - 1 times: once for each
\* ancestor of the leaf, none for the leaf itself.
C22_UpdateOpsIsDepth ==
    (last.op \in {"update", "update_with"} /\ last.ret # None)
        => /\ last.ops = CeilLog2(capacity(len)) - 1
           /\ last.ops = CeilLog2(leaf_offset(this))

C22_Witness ==
    /\ last.op = "update_with"
    /\ last.ret # None
    /\ len = MaxLen
    /\ last.ops >= 2

\* n is a power of two: 1, 2, 4, ...
IsPow2(n) == n >= 1 /\ next_power_of_two(n) = n

\* k is node or one of its ancestors node / 2, node / 4, ..., 1.
RECURSIVE OnPathToRoot(_, _)
OnPathToRoot(k, node) == k = node \/ (node > 1 /\ OnPathToRoot(k, node \div 2))

\* A push that took the tree before to the tree after left every slot the
\* buffer had as it was, except the new last leaf and its ancestors.
PushKeepsOthers(before, after) ==
    \A k \in 0 .. (Len(before.tree) - 1) :
        \/ OnPathToRoot(k, leaf_offset(after) + before.len)
        \/ (InBounds(after.tree, k) /\ Get(after.tree, k) = Get(before.tree, k))

\* C23: push rebuilds the tree (resize_upto reallocating and calling
\* reconstruct) only when the length before it is a power of two; n >= 1
\* pushes from an empty tree make at most ceil(log2(n)) rebuilds; every
\* other push, on any tree reached, changes only the new last leaf and its
\* ancestors.
C23_PushRebuildsAtPowersOfTwo ==
    [][/\ (last'.op = "push")
            => /\ ~fault'
               /\ last'.rebuilt => IsPow2(len)
               /\ ~last'.rebuilt => PushKeepsOthers(this, thisNext)
               /\ PushRebuilds(monoid, new, logical', 1, 0) <= CeilLog2(Len(logical'))
       /\ (~fault /\ ~over_capacity(this, len + 1))
            => \A x \in Values(monoid) : PushKeepsOthers(this, push(monoid, this, x))]_vars

C23_Witness ==
    /\ last.op = "push"
    /\ last.rebuilt
    /\ len = MaxLen
    /\ PushRebuilds(monoid, new, logical, 1, 0) = CeilLog2(len)
    /\ PushRebuilds(monoid, new, logical, 1, 0) >= 2
    /\ ~over_capacity(this, len + 1)

\* C24: on a range start < end <= len, with any predicate, bisect_left and
\* bisect_right end (no panic, no turn of the loop that leaves the window
\* as it was) after at most ceil(log2(end - start)) turns of the loop, each
\* making one combine call, and then apply the predicate to one leaf.
C24_BisectTurnsBounded ==
    (last.op \in {"bisect_left", "bisect_right"} /\ NonEmptyInBounds)
        => /\ ~fault
           /\ last.ret \notin {Panic, Hang}
           /\ last.iters <= CeilLog2(ArgEnd - ArgStart)
           /\ last.ret \in {None} \cup { Some(k) : k \in InRange }

C24_Witness ==
    /\ last.op = "bisect_left"
    /\ NonEmptyInBounds
    /\ last.cmp.kind = "eq"
    /\ ~MonotonePrefix
    /\ last.iters = CeilLog2(ArgEnd - ArgStart)
    /\ last.iters >= 2

\* C25: update(i, x), i < len, writes only the leaf slot leaf_offset + i and
\* its ancestors down to the root at 1: slot 0, every other leaf, every
\* internal node off that path, the buffer's length and len stay as they were.
C25_UpdateWritesOnlyPath ==
    [][(last'.op = "update" /\ last'.i < len)
          => /\ ~fault'
             /\ len' = len
             /\ Len(tree') = Len(tree)
             /\ Get(tree', leaf_offset(this) + last'.i) = last'.x
             /\ \A k \in 0 .. (Len(tree) - 1) :
                   OnPathToRoot(k, leaf_offset(this) + last'.i)
                       \/ Get(tree', k) = Get(tree, k)]_vars

C25_Witness ==
    /\ last.op = "update"
    /\ last.ret # None
    /\ last.ret # Some(last.x)
    /\ len = MaxLen
    /\ last.i = 1
    /\ \A j \in 1 .. len : logical[j] # identity(monoid)
    /\ Get(tree, 1) # identity(monoid)

\* C26: two trees holding the same logical sequence have the same buffer
\* and len, however reached (new() and pushes, From<Vec>, collect, extend in
\* either mode, updates in between), the empty sequence included: every
\* reachable tree is the tree From<Vec> makes of its logical sequence.
C26_SameSequenceSameTree ==
    /\ ~fault
    /\ this = construct(monoid, new, Len(logical), logical)

\* C27: into_iter on any reachable tree, the tree of new() or Default
\* included, completes without fault (neither split_off exceeds the length
\* of what it splits) and yields exactly len() items.
C27_IntoIterCompletes ==
    (last.op = "into_iter")
        => /\ ~fault
           /\ ~last.panic
           /\ leaf_offset(this) <= Len(tree)
           /\ last.size = len
           /\ Len(last.ret) = len

\* C28: when update(i, x), i < len, has returned Some(old), a following
\* update(i, old) returns Some(x) and leaves the tree exactly as it was
\* before the first update: every buffer slot and len.
C28_UpdateReversible ==
    [][(last'.op = "update" /\ last'.i < len)
          => /\ last'.ret # None
             /\ LET back == update(monoid, thisNext, last'.i, last'.ret[2])
                IN  /\ back.ret = Some(last'.x)
                    /\ back.self = this]_vars

C28_Witness ==
    /\ last.op = "update"
    /\ last.ret # None
    /\ last.ret # Some(last.x)
    /\ len = MaxLen
    /\ update(monoid, this, last.i, last.ret[2]).self.tree # tree
    /\ Get(tree, 1) # Get(update(monoid, this, last.i, last.ret[2]).self.tree, 1)

\* C29: in every reachable state, the empty buffer of new() included, and
\* for every range, combine reads only buffer indices i with 1 <= i < the
\* buffer's length (never 0), ends within log2(leaf_offset) + 1 turns of
\* its loop and applies the operation at most twice a turn.
C29_CombineReadsInBounds ==
    (last.op = "combine_range")
        => /\ ~fault
           /\ \A i \in last.reads : 1 <= i /\ i < Len(tree)
           /\ last.iters <= CeilLog2(leaf_offset(this)) + 1
           /\ Cardinality(last.reads) <= 2 * last.iters

C29_Witness ==
    /\ last.op = "combine_range"
    /\ len >= 2
    /\ last.iters = CeilLog2(leaf_offset(this)) + 1
    /\ 1 \in last.reads

\* C30: indices maps every range to a half-open start..end with both start
\* and end within 0 .. len; a start bound beyond len is clamped to len.
C30_IndicesWithinLen ==
    (last.op = "combine_range")
        => /\ 0 <= last.ix.start /\ last.ix.start <= len
           /\ 0 <= last.ix.end /\ last.ix.end <= len

====
